---- MODULE Spec2Model ----
(***************************************************************************)
(* The SystemBuilder web component of src/assets/system-builder.js: the    *)
(* brand/model choice state, the selection ledger (selectedProducts and    *)
(* selectedAccessories), the summary re-derived by updateSummary, and the  *)
(* add-to-cart submission of handleAddToCart with its network replies and  *)
(* timers.                                                                 *)
(*                                                                         *)
(* Conventions.  JavaScript null/undefined of a variant-valued field is    *)
(* NoVariant (id 0); of a handle-valued field it is NullHandle.  A variant *)
(* is the record [id, price, available]; titles and images only feed the   *)
(* markup and are left out.  selectedProducts is a function from the       *)
(* variant ids that have a line to the line's record; the order in which   *)
(* Object.entries enumerates it is taken to be ascending id.               *)
(* selectedAccessories[blockId] is FALSE both for an absent key and for a  *)
(* stored false: the code reads it only through truthiness.                *)
(***************************************************************************)
EXTENDS Integers, Sequences, FiniteSets, TLC

VARIABLES
  data,                \* this.data: the catalog loaded by loadData
  state,               \* this.state
  selectedProducts,    \* this.selectedProducts
  selectedAccessories, \* this.selectedAccessories
  chips,               \* the model chips rendered in the two chip containers
  cards,               \* the product card shown in each [data-product] container
  accCards,            \* the accessory cards of the accessories grid
  summary,             \* what updateSummary last rendered
  button,              \* the [data-add-to-cart] button
  subs,                \* the running handleAddToCart invocations (past the empty check)
  timers,              \* the pending setTimeout callbacks, oldest first
  observers,           \* whether the page has cart-count observers: elements that
                       \* updateCartCount's selectors match, cart:change listeners
  cartCount            \* the count the observers last got (0: none, or undefined)

vars == <<data, state, selectedProducts, selectedAccessories, chips, cards,
          accCards, summary, button, subs, timers, observers, cartCount>>

-----------------------------------------------------------------------------
(* Bounds of the model *)

\* a line's quantity is not incremented past MaxQty
MaxQty == 2
\* at most MaxTimers setTimeout callbacks are pending at once
MaxTimers == 1
\* at most MaxSubs handleAddToCart invocations are awaiting a reply or a timer
MaxSubs == 2
\* the read-cart endpoint answers an item_count in 1..MaxCartCount
MaxCartCount == 1

-----------------------------------------------------------------------------
(* Values *)

NullHandle == "null"
NoVariant == [id |-> 0, price |-> 0, available |-> TRUE]
Variant(i, p, a) == [id |-> i, price |-> p, available |-> a]

\* the product types of handleProductCardClick's stateKeyMap, in the order
\* updateSummary renders them
ProductTypes == <<"ring-mount", "mag-ring", "adapter", "phone-case">>
TypeSet == {ProductTypes[i] : i \in 1..Len(ProductTypes)}

\* stateKeyMap of handleProductCardClick
StateKey(productType) ==
  CASE productType = "ring-mount" -> "ringMount"
    [] productType = "mag-ring" -> "magRing"
    [] productType = "adapter" -> "adapter"
    [] productType = "phone-case" -> "phoneCase"

-----------------------------------------------------------------------------
(* The catalog handed to the component *)

V1 == Variant(1, 1000, TRUE)
V2 == Variant(2, 500, TRUE)
V3 == Variant(3, 800, FALSE)
V4 == Variant(4, 300, TRUE)
V5 == Variant(5, 2000, TRUE)
V6 == Variant(6, 700, FALSE)

Accessory(b, i, p, a) == [blockId |-> b, id |-> i, price |-> p, available |-> a]

\* two optic brands with a model each; both models have the ring mount V2,
\* whose id is larger than that of the mag ring V1, which only m1 has; the
\* only accessory is out of stock
CatalogOptic ==
  [opticBrands |-> <<"b1", "b2">>,
   opticModels |-> << [handle |-> "m1", brandHandle |-> "b1", ringMount |-> V2, magRing |-> V1],
                      [handle |-> "m2", brandHandle |-> "b2", ringMount |-> V2, magRing |-> NoVariant] >>,
   phoneBrands |-> <<>>,
   phoneModels |-> <<>>,
   adapterProduct |-> NoVariant,
   accessories |-> << Accessory("a2", 12, 90, FALSE) >>]

\* no brands: the adapter, a free accessory and a priced one
CatalogAdapter ==
  [opticBrands |-> <<>>,
   opticModels |-> <<>>,
   phoneBrands |-> <<>>,
   phoneModels |-> <<>>,
   adapterProduct |-> V5,
   accessories |-> << Accessory("a1", 11, 0, TRUE), Accessory("a3", 13, 150, TRUE) >>]

\* a phone brand with a case in stock and a case out of stock, a phone brand
\* without models, and an optic model whose ring mount is out of stock
CatalogPhone ==
  [opticBrands |-> <<"b1">>,
   opticModels |-> << [handle |-> "m1", brandHandle |-> "b1", ringMount |-> V6, magRing |-> NoVariant] >>,
   phoneBrands |-> <<"p1", "p2">>,
   phoneModels |-> << [handle |-> "pm1", brandHandle |-> "p1", phoneCase |-> V4],
                      [handle |-> "pm2", brandHandle |-> "p1", phoneCase |-> V3] >>,
   adapterProduct |-> NoVariant,
   accessories |-> <<>>]

\* one phone model, whose case is out of stock, and an accessory in stock
CatalogStock ==
  [opticBrands |-> <<>>,
   opticModels |-> <<>>,
   phoneBrands |-> <<"p1">>,
   phoneModels |-> << [handle |-> "pm2", brandHandle |-> "p1", phoneCase |-> V3] >>,
   adapterProduct |-> NoVariant,
   accessories |-> << Accessory("a4", 14, 20, TRUE) >>]

\* one brand with two models that resolve the same variant, one as its ring
\* mount and the other as its mag ring
CatalogShared ==
  [opticBrands |-> <<"b1">>,
   opticModels |-> << [handle |-> "m1", brandHandle |-> "b1", ringMount |-> V2, magRing |-> NoVariant],
                      [handle |-> "m3", brandHandle |-> "b1", ringMount |-> NoVariant, magRing |-> V2] >>,
   phoneBrands |-> <<>>,
   phoneModels |-> <<>>,
   adapterProduct |-> NoVariant,
   accessories |-> <<>>]

\* two brands that each have a model of handle m1, with different ring mounts
CatalogTwin ==
  [opticBrands |-> <<"b1", "b2">>,
   opticModels |-> << [handle |-> "m1", brandHandle |-> "b1", ringMount |-> V2, magRing |-> NoVariant],
                      [handle |-> "m1", brandHandle |-> "b2", ringMount |-> V1, magRing |-> NoVariant] >>,
   phoneBrands |-> <<>>,
   phoneModels |-> <<>>,
   adapterProduct |-> NoVariant,
   accessories |-> <<>>]

\* one model whose ring mount and mag ring are the same variant
CatalogDual ==
  [opticBrands |-> <<"b1">>,
   opticModels |-> << [handle |-> "m1", brandHandle |-> "b1", ringMount |-> V2, magRing |-> V2] >>,
   phoneBrands |-> <<>>,
   phoneModels |-> <<>>,
   adapterProduct |-> NoVariant,
   accessories |-> <<>>]

Catalogs == {CatalogOptic, CatalogAdapter, CatalogPhone, CatalogStock, CatalogShared,
             CatalogTwin, CatalogDual}

BlockIds(d) == {d.accessories[i].blockId : i \in 1..Len(d.accessories)}

-----------------------------------------------------------------------------
(* Helpers standing for JavaScript built-ins *)

Min(S) == CHOOSE x \in S : \A y \in S : x <= y

\* Object.keys / Object.entries order of an object keyed by variant id
RECURSIVE KeysOf(_)
KeysOf(S) == IF S = {} THEN <<>> ELSE <<Min(S)>> \o KeysOf(S \ {Min(S)})

\* ModelsOfBrand without the filter: every model of the catalog
ModelsOfBrand_NoFilter(models, brand) == models

\* models.filter(model => model.brandHandle === brand)
ModelsOfBrand(models, brand) == SelectSeq(models, LAMBDA m : m.brandHandle = brand)

\* models.find(model => model.handle === handle): the index of the first
\* such model, 0 when find returns undefined
RECURSIVE FindFrom(_, _, _)
FindFrom(models, handle, i) ==
  IF i > Len(models) THEN 0
  ELSE IF models[i].handle = handle THEN i ELSE FindFrom(models, handle, i + 1)
FindModel(models, handle) == FindFrom(models, handle, 1)

\* x || 1 on a quantity
OrOne(q) == IF q = 0 THEN 1 ELSE q

\* formatMoney's fallback: "$" followed by (cents / 100).toFixed(2), kept as
\* the pair <<dollars, cents>> that the text shows
formatMoney(cents) == <<cents \div 100, cents % 100>>

-----------------------------------------------------------------------------
(* The submit button's labels: <<kind, n>> *)

BaseText == <<"Add All to Cart", 0>>
UnsetText == <<"", 0>>
CountText(n) == <<"Add to Cart (n items)", n>>
SelectFirstText == <<"Select products first", 0>>
AddingText == <<"Adding...", 0>>
AddedText == <<"Added!", 0>>

-----------------------------------------------------------------------------
(* updateSummary *)

\* one rendered line of the summary list
LineItem(variantId, product) ==
  [kind |-> "product", variantId |-> variantId, blockId |-> "",
   productType |-> product.productType, quantity |-> OrOne(product.quantity),
   price |-> formatMoney(product.price * OrOne(product.quantity))]

AccessoryItem(accessory) ==
  [kind |-> "accessory", variantId |-> 0, blockId |-> accessory.blockId,
   productType |-> "accessory", quantity |-> 1, price |-> formatMoney(accessory.price)]

\* productsByType[type] rendered in Object.entries order
RECURSIVE ItemsOfType(_, _, _)
ItemsOfType(sp, keys, type) ==
  IF keys = <<>> THEN <<>>
  ELSE (IF sp[Head(keys)].productType = type
          THEN <<LineItem(Head(keys), sp[Head(keys)])>> ELSE <<>>)
       \o ItemsOfType(sp, Tail(keys), type)

\* ItemsByType that renders the lines in Object.entries order, whatever
\* their type
ItemsByType_EntriesOrder(sp, types) ==
  LET keys == KeysOf(DOMAIN sp)
  IN [k \in 1..Len(keys) |-> LineItem(keys[k], sp[keys[k]])]

RECURSIVE ItemsByType(_, _)
ItemsByType(sp, types) ==
  IF types = <<>> THEN <<>>
  ELSE ItemsOfType(sp, KeysOf(DOMAIN sp), Head(types)) \o ItemsByType(sp, Tail(types))

RECURSIVE AccessoryItems(_, _)
AccessoryItems(accs, sa) ==
  IF accs = <<>> THEN <<>>
  ELSE (IF sa[Head(accs).blockId] THEN <<AccessoryItem(Head(accs))>> ELSE <<>>)
       \o AccessoryItems(Tail(accs), sa)

\* SumProducts with the line's price added once, whatever its quantity
RECURSIVE SumProducts_NoQty(_, _)
SumProducts_NoQty(sp, keys) ==
  IF keys = <<>> THEN <<0, 0>>
  ELSE LET product == sp[Head(keys)]
           rest == SumProducts_NoQty(sp, Tail(keys))
       IN IF product.price # 0
            THEN <<rest[1] + product.price, rest[2] + OrOne(product.quantity)>>
            ELSE rest

\* the two accumulators of the "Calculate total" loops: <<total, itemCount>>
RECURSIVE SumProducts(_, _)
SumProducts(sp, keys) ==
  IF keys = <<>> THEN <<0, 0>>
  ELSE LET product == sp[Head(keys)]
           rest == SumProducts(sp, Tail(keys))
           qty == OrOne(product.quantity)
       IN IF product.price # 0
            THEN <<rest[1] + product.price * qty, rest[2] + qty>>
            ELSE rest

RECURSIVE SumAccessories(_, _)
SumAccessories(accs, sa) ==
  IF accs = <<>> THEN <<0, 0>>
  ELSE LET rest == SumAccessories(Tail(accs), sa)
       IN IF sa[Head(accs).blockId] /\ Head(accs).price # 0
            THEN <<rest[1] + Head(accs).price, rest[2] + 1>>
            ELSE rest

Totals(d, sp, sa) ==
  LET p == SumProducts(sp, KeysOf(DOMAIN sp))
      a == SumAccessories(d.accessories, sa)
  IN <<p[1] + a[1], p[2] + a[2]>>

\* Summarize whose flags look at the lines only, not at the accessories
Summarize_LinesOnly(d, sp, sa) ==
  LET hasSelectedProducts == Cardinality(DOMAIN sp) > 0
      t == Totals(d, sp, sa)
  IN [emptyHidden |-> hasSelectedProducts,
      footerHidden |-> ~hasSelectedProducts,
      items |-> ItemsByType(sp, ProductTypes) \o AccessoryItems(d.accessories, sa),
      total |-> formatMoney(t[1]),
      itemCount |-> t[2]]

\* the rendering of updateSummary, but for the button
Summarize(d, sp, sa) ==
  LET hasSelectedAccessories == \E b \in DOMAIN sa : sa[b]
      hasSelectedProducts == Cardinality(DOMAIN sp) > 0 \/ hasSelectedAccessories
      t == Totals(d, sp, sa)
  IN [emptyHidden |-> hasSelectedProducts,
      footerHidden |-> ~hasSelectedProducts,
      items |-> ItemsByType(sp, ProductTypes) \o AccessoryItems(d.accessories, sa),
      total |-> formatMoney(t[1]),
      itemCount |-> t[2]]

\* the button as updateSummary leaves it
SummaryButton(btn, itemCount) ==
  LET baseText == IF btn.originalText # UnsetText THEN btn.originalText ELSE btn.text
  IN [btn EXCEPT !.originalText = baseText,
                 !.text = IF itemCount > 0 THEN CountText(itemCount) ELSE baseText]

\* updateSummary as the last call of a handler that leaves the ledger as sp, sa
updateSummary(sp, sa) ==
  /\ summary' = Summarize(data, sp, sa)
  /\ button' = SummaryButton(button, Totals(data, sp, sa)[2])

-----------------------------------------------------------------------------
(* Product cards *)

NoCard == [variantId |-> 0, available |-> TRUE, selected |-> FALSE, hidden |-> FALSE]

\* displayVariantProduct that writes data-available="true" on every card
displayVariantProduct_AllAvailable(variantData, sp) ==
  IF variantData.id = 0 THEN NoCard
  ELSE [variantId |-> variantData.id,
        available |-> TRUE,
        selected |-> variantData.id \in DOMAIN sp,
        hidden |-> FALSE]

\* the card displayVariantProduct renders for variantData (none for a missing
\* variant), in a container it un-hides
displayVariantProduct(variantData, sp) ==
  IF variantData.id = 0 THEN NoCard
  ELSE [variantId |-> variantData.id,
        available |-> variantData.available # FALSE,
        selected |-> variantData.id \in DOMAIN sp,
        hidden |-> FALSE]

\* querySelector('[data-product-card][data-variant-id=...]'): the first
\* container, in document order, whose card carries the variant id ("" when none)
RECURSIVE FirstCard(_, _, _)
FirstCard(cs, types, variantId) ==
  IF types = <<>> THEN ""
  ELSE IF cs[Head(types)].variantId = variantId THEN Head(types)
  ELSE FirstCard(cs, Tail(types), variantId)

\* classList.remove('...--selected') on the card querySelector finds
Deselect(cs, variantId) ==
  LET t == FirstCard(cs, ProductTypes, variantId)
  IN IF t = "" THEN cs ELSE [cs EXCEPT ![t].selected = FALSE]

-----------------------------------------------------------------------------
(* Construction: constructor, loadData, initializeState *)

InitialState(d) ==
  [opticBrand |-> NullHandle, opticModel |-> NullHandle,
   ringMount |-> NoVariant, ringMountVariantId |-> 0, magRing |-> NoVariant,
   adapter |-> d.adapterProduct,
   phoneBrand |-> NullHandle, phoneModel |-> NullHandle, phoneCase |-> NoVariant]

\* displayAccessories
displayAccessories(d, sa) ==
  [b \in BlockIds(d) |->
     LET i == CHOOSE j \in 1..Len(d.accessories) : d.accessories[j].blockId = b
     IN [available |-> d.accessories[i].available # FALSE, selected |-> sa[b]]]

\* the text of one embedded JSON element as loadData meets it: no such
\* element, a text JSON.parse throws on, the text null, the text of a value
Missing == [kind |-> "missing"]
Unparseable == [kind |-> "unparseable"]
JsonNull == [kind |-> "null"]
Json(v) == [kind |-> "json", value |-> v]

\* the six elements of a page that embeds this catalog: an element is left
\* out where the catalog has no entry
RawOf(d) ==
  [opticBrands |-> IF d.opticBrands = <<>> THEN Missing ELSE Json(d.opticBrands),
   opticModels |-> IF d.opticModels = <<>> THEN Missing ELSE Json(d.opticModels),
   phoneBrands |-> IF d.phoneBrands = <<>> THEN Missing ELSE Json(d.phoneBrands),
   phoneModels |-> IF d.phoneModels = <<>> THEN Missing ELSE Json(d.phoneModels),
   adapterProduct |-> IF d.adapterProduct = NoVariant THEN JsonNull
                      ELSE Json(d.adapterProduct),
   accessories |-> IF d.accessories = <<>> THEN Missing ELSE Json(d.accessories)]

\* a page whose optic models are not JSON: the brand list before them is
\* loaded, the adapter and the accessories after them are not
RawUnparseable ==
  [RawOf(CatalogAdapter) EXCEPT !.opticBrands = Json(<<"b1">>),
                                !.opticModels = Unparseable]

\* a page whose optic brand list is the text null, with an adapter
RawNullBrands ==
  [opticBrands |-> JsonNull, opticModels |-> Missing, phoneBrands |-> Missing,
   phoneModels |-> Missing, adapterProduct |-> Json(V5), accessories |-> Missing]

\* the pages the component is placed on: the embedded elements, and whether
\* the theme around the component has cart-count observers
Pages ==
  {<<RawOf(CatalogOptic), FALSE>>, <<RawOf(CatalogAdapter), TRUE>>,
   <<RawOf(CatalogPhone), FALSE>>, <<RawOf(CatalogStock), FALSE>>, <<RawOf(CatalogShared), FALSE>>,
   <<RawOf(CatalogTwin), FALSE>>, <<RawOf(CatalogDual), FALSE>>,
   <<RawUnparseable, FALSE>>, <<RawNullBrands, FALSE>>}

\* this.data as the constructor leaves it
EmptyData ==
  [opticBrands |-> <<>>, opticModels |-> <<>>, phoneBrands |-> <<>>,
   phoneModels |-> <<>>, adapterProduct |-> NoVariant, accessories |-> <<>>]

\* the assignments of loadData's try block, in their order
DataFields ==
  <<"opticBrands", "opticModels", "phoneBrands", "phoneModels", "adapterProduct",
    "accessories">>

\* the place of the first assignment whose JSON.parse throws, one past the
\* last when none does
RECURSIVE FirstThrow(_, _)
FirstThrow(raw, i) ==
  IF i > Len(DataFields) THEN i
  ELSE IF raw[DataFields[i]].kind = "unparseable" THEN i ELSE FirstThrow(raw, i + 1)

\* the fields loadData assigned before the catch block took over
Assigned(raw) == {DataFields[i] : i \in 1..(FirstThrow(raw, 1) - 1)}

\* the lists loadData assigned null to: JSON.parse of the text null
NullLists(raw) ==
  {f \in Assigned(raw) \ {"adapterProduct"} : raw[f].kind = "null"}

\* loadData with one try block for each section: a section that fails to
\* parse keeps its default and the sections after it are still loaded
loadData_PerSection(raw) ==
  LET Loaded(f) == IF raw[f].kind = "json" THEN raw[f].value ELSE EmptyData[f]
  IN [opticBrands |-> Loaded("opticBrands"), opticModels |-> Loaded("opticModels"),
      phoneBrands |-> Loaded("phoneBrands"), phoneModels |-> Loaded("phoneModels"),
      adapterProduct |-> Loaded("adapterProduct"), accessories |-> Loaded("accessories")]

\* this.data after loadData: a missing element gives the default, null gives
\* null (no variant; a list that is null is read by initializeState only and
\* is kept here as the empty list)
loadData(raw) ==
  LET Loaded(f) == IF f \in Assigned(raw) /\ raw[f].kind = "json"
                     THEN raw[f].value ELSE EmptyData[f]
  IN [opticBrands |-> Loaded("opticBrands"), opticModels |-> Loaded("opticModels"),
      phoneBrands |-> Loaded("phoneBrands"), phoneModels |-> Loaded("phoneModels"),
      adapterProduct |-> Loaded("adapterProduct"), accessories |-> Loaded("accessories")]

\* initializeState reads .length of the two brand lists first: a TypeError
\* when one of them is null
InitThrows(raw) == NullLists(raw) \cap {"opticBrands", "phoneBrands"} # {}

\* the component after the constructor and connectedCallback on a page: when
\* initializeState throws, the adapter is not taken into the state, no card is
\* rendered and updateSummary is not called, so the summary and the button
\* stay as the section's markup has them, which shows the empty selection
connectedCallback(raw, o) ==
  LET d == loadData(raw)
      thrown == InitThrows(raw)
      sa == [b \in BlockIds(d) |-> FALSE]
      markupButton == [text |-> BaseText, disabled |-> FALSE, originalText |-> UnsetText]
  IN [data |-> d,
      observers |-> o,
      state |-> IF thrown THEN InitialState(EmptyData) ELSE InitialState(d),
      selectedProducts |-> <<>>,
      selectedAccessories |-> sa,
      chips |-> [optic |-> <<>>, phone |-> <<>>],
      cards |-> [t \in TypeSet |->
                   IF t = "adapter" /\ ~thrown
                     THEN displayVariantProduct(d.adapterProduct, <<>>)
                     ELSE NoCard],
      accCards |-> IF thrown THEN [b \in {} |-> NoCard] ELSE displayAccessories(d, sa),
      summary |-> Summarize(d, <<>>, sa),
      button |-> IF thrown THEN markupButton ELSE SummaryButton(markupButton, 0),
      subs |-> <<>>,
      timers |-> <<>>,
      cartCount |-> 0]

InitWith(raw, o) ==
  LET c == connectedCallback(raw, o)
  IN /\ data = c.data
     /\ observers = c.observers
     /\ state = c.state
     /\ selectedProducts = c.selectedProducts
     /\ selectedAccessories = c.selectedAccessories
     /\ chips = c.chips
     /\ cards = c.cards
     /\ accCards = c.accCards
     /\ summary = c.summary
     /\ button = c.button
     /\ subs = c.subs
     /\ timers = c.timers
     /\ cartCount = c.cartCount

Init == \E page \in Pages : InitWith(page[1], page[2])

-----------------------------------------------------------------------------
(* handleProductCardClick *)

\* AddOrIncrement that stores a fresh line of quantity 1 on every click
AddOrIncrement_Reset(sp, variantId, productType, productData) ==
  IF productData.id # 0
    THEN [k \in DOMAIN sp \cup {variantId} |->
            IF k = variantId
              THEN [id |-> productData.id, price |-> productData.price,
                    available |-> productData.available,
                    productType |-> productType, quantity |-> 1]
              ELSE sp[k]]
  ELSE sp

\* AddOrIncrement that keeps a single line: a new line replaces the ledger
AddOrIncrement_Single(sp, variantId, productType, productData) ==
  IF variantId \in DOMAIN sp
    THEN [sp EXCEPT ![variantId].quantity = OrOne(sp[variantId].quantity) + 1]
  ELSE IF productData.id # 0
    THEN [k \in {variantId} |->
            [id |-> productData.id, price |-> productData.price,
             available |-> productData.available,
             productType |-> productType, quantity |-> 1]]
  ELSE sp

\* the ledger after a click that writes the line again from the variant the
\* state holds now, with the quantity the line had plus one
AddOrIncrement_Resnapshot(sp, variantId, productType, productData) ==
  IF productData.id # 0
    THEN [k \in DOMAIN sp \cup {variantId} |->
            IF k = variantId
              THEN [id |-> productData.id, price |-> productData.price,
                    available |-> productData.available,
                    productType |-> productType,
                    quantity |-> IF variantId \in DOMAIN sp
                                   THEN OrOne(sp[variantId].quantity) + 1 ELSE 1]
              ELSE sp[k]]
  ELSE sp

\* the ledger after a click on a variant card: increment the line, or create
\* it from the variant the state holds for the card's product type
AddOrIncrement(sp, variantId, productType, productData) ==
  IF variantId \in DOMAIN sp
    THEN [sp EXCEPT ![variantId].quantity = OrOne(sp[variantId].quantity) + 1]
  ELSE IF productData.id # 0
    THEN [k \in DOMAIN sp \cup {variantId} |->
            IF k = variantId
              THEN [id |-> productData.id, price |-> productData.price,
                    available |-> productData.available,
                    productType |-> productType, quantity |-> 1]
              ELSE sp[k]]
  ELSE sp

\* handleProductCardClick without the return on data-available="false"
handleProductCardClick_NoCheck(productType) ==
  LET card == cards[productType] IN
  /\ card.variantId # 0
  /\ ~card.hidden
  /\ card.variantId \in DOMAIN selectedProducts
       => selectedProducts[card.variantId].quantity < MaxQty
  /\ LET sp == AddOrIncrement(selectedProducts, card.variantId, productType,
                              state[StateKey(productType)])
     IN /\ selectedProducts' = sp
        /\ cards' = [cards EXCEPT ![productType].selected =
                                     card.variantId \in DOMAIN sp]
        /\ updateSummary(sp, selectedAccessories)
        /\ UNCHANGED <<observers, cartCount, data, state, selectedAccessories,
                       chips, accCards, subs, timers>>

\* a click on the card of container productType
handleProductCardClick(productType) ==
  LET card == cards[productType] IN
  /\ card.variantId # 0
  /\ ~card.hidden
  /\ card.variantId \in DOMAIN selectedProducts
       => selectedProducts[card.variantId].quantity < MaxQty
  /\ IF ~card.available
       THEN UNCHANGED vars
       ELSE LET sp == AddOrIncrement(selectedProducts, card.variantId, productType,
                                     state[StateKey(productType)])
            IN /\ selectedProducts' = sp
               /\ cards' = [cards EXCEPT ![productType].selected =
                                            card.variantId \in DOMAIN sp]
               /\ updateSummary(sp, selectedAccessories)
               /\ UNCHANGED <<observers, cartCount, data, state, selectedAccessories,
                              chips, accCards, subs, timers>>

\* handleAccessoryCardClick without the test of data-available
handleAccessoryCardClick_NoCheck(blockId) ==
  /\ blockId \in DOMAIN accCards
  /\ LET sa == [selectedAccessories EXCEPT ![blockId] = ~selectedAccessories[blockId]]
     IN /\ selectedAccessories' = sa
        /\ accCards' = [accCards EXCEPT ![blockId].selected = sa[blockId]]
        /\ updateSummary(selectedProducts, sa)
        /\ UNCHANGED <<observers, cartCount, data, state, selectedProducts, chips,
                       cards, subs, timers>>

\* a click on the accessory card of blockId
handleAccessoryCardClick(blockId) ==
  /\ blockId \in DOMAIN accCards
  /\ IF ~accCards[blockId].available
       THEN UNCHANGED vars
       ELSE LET sa == [selectedAccessories EXCEPT ![blockId] = ~selectedAccessories[blockId]]
            IN /\ selectedAccessories' = sa
               /\ accCards' = [accCards EXCEPT ![blockId].selected = sa[blockId]]
               /\ updateSummary(selectedProducts, sa)
               /\ UNCHANGED <<observers, cartCount, data, state, selectedProducts, chips,
                              cards, subs, timers>>

-----------------------------------------------------------------------------
(* The summary's buttons *)

\* the variant ids and block ids the handlers can be called with
VariantIds ==
  {data.opticModels[i].ringMount.id : i \in 1..Len(data.opticModels)}
  \cup {data.opticModels[i].magRing.id : i \in 1..Len(data.opticModels)}
  \cup {data.phoneModels[i].phoneCase.id : i \in 1..Len(data.phoneModels)}
  \cup {data.adapterProduct.id}

\* delete sp[variantId]
Delete(sp, variantId) == [k \in DOMAIN sp \ {variantId} |-> sp[k]]

\* ChangeQuantity that keeps a line at quantity 1 instead of deleting it
ChangeQuantity_FloorOne(sp, variantId, delta) ==
  LET newQuantity == OrOne(sp[variantId].quantity) + delta
  IN IF newQuantity <= 0 THEN sp
     ELSE [sp EXCEPT ![variantId].quantity = newQuantity]

\* ChangeQuantity with the test newQuantity < 0
ChangeQuantity_StrictZero(sp, variantId, delta) ==
  LET newQuantity == OrOne(sp[variantId].quantity) + delta
  IN IF newQuantity < 0 THEN Delete(sp, variantId)
     ELSE [sp EXCEPT ![variantId].quantity = newQuantity]

\* ChangeQuantity that keeps the line at quantity 1 instead of deleting it
ChangeQuantity_NoDelete(sp, variantId, delta) ==
  LET newQuantity == OrOne(sp[variantId].quantity) + delta
  IN [sp EXCEPT ![variantId].quantity = IF newQuantity <= 0 THEN 1 ELSE newQuantity]

\* the ledger after handleQuantityChange's branch on newQuantity
ChangeQuantity(sp, variantId, delta) ==
  LET newQuantity == OrOne(sp[variantId].quantity) + delta
  IN IF newQuantity <= 0 THEN Delete(sp, variantId)
     ELSE [sp EXCEPT ![variantId].quantity = newQuantity]

\* handleRemoveFromSummary that takes one off a line of quantity above 1
handleRemoveFromSummary_Decrement(variantId) ==
  IF variantId = 0 \/ variantId \notin DOMAIN selectedProducts
    THEN UNCHANGED vars
    ELSE LET sp == ChangeQuantity(selectedProducts, variantId, -1)
         IN /\ selectedProducts' = sp
            /\ cards' = IF variantId \in DOMAIN sp THEN cards
                        ELSE Deselect(cards, variantId)
            /\ updateSummary(sp, selectedAccessories)
            /\ UNCHANGED <<observers, cartCount, data, state, selectedAccessories, chips,
                           accCards, subs, timers>>

\* handleRemoveFromSummary that also takes the variant out of the requests
\* that are awaiting their answer
handleRemoveFromSummary_Cancel(variantId) ==
  IF variantId = 0 \/ variantId \notin DOMAIN selectedProducts
    THEN UNCHANGED vars
    ELSE /\ selectedProducts' = Delete(selectedProducts, variantId)
         /\ cards' = Deselect(cards, variantId)
         /\ updateSummary(Delete(selectedProducts, variantId), selectedAccessories)
         /\ subs' = [i \in 1..Len(subs) |->
                       [subs[i] EXCEPT !.items =
                          SelectSeq(subs[i].items, LAMBDA it : it.id # variantId)]]
         /\ UNCHANGED <<observers, cartCount, data, state, selectedAccessories, chips,
                        accCards, timers>>

\* a click on the remove button of the line of variantId
handleRemoveFromSummary(variantId) ==
  IF variantId = 0 \/ variantId \notin DOMAIN selectedProducts
    THEN UNCHANGED vars
    ELSE /\ selectedProducts' = Delete(selectedProducts, variantId)
         /\ cards' = Deselect(cards, variantId)
         /\ updateSummary(Delete(selectedProducts, variantId), selectedAccessories)
         /\ UNCHANGED <<observers, cartCount, data, state, selectedAccessories, chips,
                        accCards, subs, timers>>

handleRemoveAccessoryFromSummary(blockId) ==
  /\ blockId \in DOMAIN accCards
  /\ LET sa == [selectedAccessories EXCEPT ![blockId] = FALSE]
     IN /\ selectedAccessories' = sa
        /\ accCards' = [accCards EXCEPT ![blockId].selected = FALSE]
        /\ updateSummary(selectedProducts, sa)
        /\ UNCHANGED <<observers, cartCount, data, state, selectedProducts, chips,
                              cards, subs, timers>>

\* what handleQuantityChange writes for the line of variantId before it calls
\* updateSummary: the new quantity, or the deletion of the line and the
\* deselection of its card
changeLineQuantity(variantId, delta) ==
  /\ variantId \in DOMAIN selectedProducts
  /\ delta > 0 => selectedProducts[variantId].quantity < MaxQty
  /\ LET sp == ChangeQuantity(selectedProducts, variantId, delta)
     IN /\ selectedProducts' = sp
        /\ cards' = IF variantId \in DOMAIN sp THEN cards
                    ELSE Deselect(cards, variantId)
  /\ UNCHANGED <<observers, cartCount, data, state, selectedAccessories,
                 chips, accCards, subs, timers>>

\* a click on the plus (delta 1) or minus (delta -1) button of a line
handleQuantityChange(variantId, delta) ==
  IF variantId = 0 \/ variantId \notin DOMAIN selectedProducts
    THEN UNCHANGED vars
    ELSE /\ changeLineQuantity(variantId, delta)
         /\ updateSummary(selectedProducts', selectedAccessories)

-----------------------------------------------------------------------------
(* handleChipClick *)

Handles(models) == [i \in 1..Len(models) |-> models[i].handle]

\* case 'optic-brand' without the call of clearOpticProducts
chooseOpticBrand_KeepVariants(value) ==
  /\ state' = [state EXCEPT !.opticBrand = value, !.opticModel = NullHandle]
  /\ chips' = [chips EXCEPT !.optic = Handles(ModelsOfBrand(data.opticModels, value))]
  /\ cards' = cards

\* case 'optic-brand' that clears the products of both configurations
chooseOpticBrand_ClearAll(value) ==
  /\ state' = [state EXCEPT !.opticBrand = value, !.opticModel = NullHandle,
                            !.ringMount = NoVariant, !.ringMountVariantId = 0,
                            !.magRing = NoVariant, !.phoneCase = NoVariant]
  /\ chips' = [chips EXCEPT !.optic = Handles(ModelsOfBrand(data.opticModels, value))]
  /\ cards' = [cards EXCEPT !["ring-mount"] = NoCard, !["mag-ring"] = NoCard,
                            !["phone-case"] = NoCard]

\* case 'optic-brand': updateOpticModels, clearOpticProducts
chooseOpticBrand(value) ==
  /\ state' = [state EXCEPT !.opticBrand = value, !.opticModel = NullHandle,
                            !.ringMount = NoVariant, !.ringMountVariantId = 0,
                            !.magRing = NoVariant]
  /\ chips' = [chips EXCEPT !.optic = Handles(ModelsOfBrand(data.opticModels, value))]
  /\ cards' = [cards EXCEPT !["ring-mount"] = NoCard, !["mag-ring"] = NoCard]

\* case 'optic-model': updateOpticProducts
chooseOpticModel(value) ==
  LET i == FindModel(data.opticModels, value) IN
  /\ chips' = chips
  /\ IF value = NullHandle \/ i = 0
       THEN /\ state' = [state EXCEPT !.opticModel = value]
            /\ cards' = cards
       ELSE LET modelData == data.opticModels[i]
            IN /\ state' = [state EXCEPT !.opticModel = value,
                                         !.ringMount = modelData.ringMount,
                                         !.ringMountVariantId = modelData.ringMount.id,
                                         !.magRing = modelData.magRing]
               /\ cards' = [cards EXCEPT
                    !["ring-mount"] = displayVariantProduct(modelData.ringMount, selectedProducts),
                    !["mag-ring"] = displayVariantProduct(modelData.magRing, selectedProducts)]

\* case 'phone-brand': updatePhoneModels
choosePhoneBrand(value) ==
  /\ state' = [state EXCEPT !.phoneBrand = value, !.phoneModel = NullHandle,
                            !.phoneCase = NoVariant]
  /\ chips' = [chips EXCEPT !.phone = Handles(ModelsOfBrand(data.phoneModels, value))]
  /\ cards' = [cards EXCEPT !["phone-case"].hidden = TRUE]

\* case 'phone-model': updatePhoneCase
choosePhoneModel(value) ==
  LET i == FindModel(data.phoneModels, value) IN
  /\ chips' = chips
  /\ IF value = NullHandle \/ i = 0
       THEN /\ state' = [state EXCEPT !.phoneModel = value]
            /\ cards' = cards
       ELSE LET modelData == data.phoneModels[i]
            IN /\ state' = [state EXCEPT !.phoneModel = value,
                                         !.phoneCase = modelData.phoneCase]
               /\ cards' = [cards EXCEPT
                    !["phone-case"] = displayVariantProduct(modelData.phoneCase, selectedProducts)]

SeqSet(seq) == {seq[i] : i \in 1..Len(seq)}

\* the chips on the page: the brand chips of the catalog's brands and the
\* model chips the last brand choice rendered
ChipValues(field) ==
  CASE field = "optic-brand" -> SeqSet(data.opticBrands)
    [] field = "optic-model" -> SeqSet(chips.optic)
    [] field = "phone-brand" -> SeqSet(data.phoneBrands)
    [] field = "phone-model" -> SeqSet(chips.phone)

Fields == {"optic-brand", "optic-model", "phone-brand", "phone-model"}

handleChipClick(field, value) ==
  /\ CASE field = "optic-brand" -> chooseOpticBrand(value)
       [] field = "optic-model" -> chooseOpticModel(value)
       [] field = "phone-brand" -> choosePhoneBrand(value)
       [] field = "phone-model" -> choosePhoneModel(value)
  /\ updateSummary(selectedProducts, selectedAccessories)
  /\ UNCHANGED <<observers, cartCount, data, selectedProducts, selectedAccessories,
                 accCards, subs, timers>>

-----------------------------------------------------------------------------
(* handleAddToCart *)

\* the phrases the handler searches the lower-cased error text for
Phrases == {"out of stock", "not available", "inventory"}

\* a string the handler reads from a reply or from an Error: the text, the
\* phrases that text.toLowerCase() includes, and whether text.length <= 30
Message(text, phrases, short) == [text |-> text, phrases |-> phrases, short |-> short]
NoMessage == Message("", {}, TRUE)

\* the <<description, message>> of the JSON bodies a non-2xx answer of
\* /cart/add.js carries
ErrorBodies ==
  { <<Message("Item is Out Of Stock", {"out of stock"}, TRUE), NoMessage>>,
    <<NoMessage, Message("Not enough Inventory", {"inventory"}, TRUE)>>,
    <<Message("The requested quantity exceeds the available amount", {}, FALSE),
      Message("Product not available", {"not available"}, TRUE)>>,
    <<Message("out_of_stock", {}, TRUE), NoMessage>>,
    <<NoMessage, NoMessage>> }

\* error.message of a rejected fetch or of a rejected json()
FetchError == Message("NetworkError when attempting to fetch resource.", {}, FALSE)

\* what fetch('/cart/add.js') and response.json() can give
AddReplies ==
  {[kind |-> "ok", description |-> NoMessage, message |-> NoMessage, error |-> NoMessage]}
  \cup {[kind |-> "not-ok", description |-> b[1], message |-> b[2], error |-> NoMessage] :
          b \in ErrorBodies}
  \cup {[kind |-> "throws", description |-> NoMessage, message |-> NoMessage,
         error |-> FetchError]}

\* what fetch('/cart.js') and cartResponse.json() can give: a cart with its
\* item_count, a non-2xx answer whose JSON body has no item_count (undefined,
\* written 0), or a rejection
CartReplies ==
  {[kind |-> "ok", item_count |-> n, error |-> NoMessage] : n \in 1..MaxCartCount}
  \cup {[kind |-> "not-ok", item_count |-> 0, error |-> NoMessage]}
  \cup {[kind |-> "throws", item_count |-> 0, error |-> FetchError]}

OutOfStockText == <<"Some items are out of stock", 0>>
TryAgainText == <<"Error - Try Again", 0>>

\* errorMessage: responseData.description || responseData.message || ''
ErrorMessage(reply) ==
  IF reply.description.text # "" THEN reply.description ELSE reply.message

\* ThrownMessage that does not search for 'inventory'
ThrownMessage_TwoPhrases(errorMessage) ==
  IF errorMessage.phrases \cap (Phrases \ {"inventory"}) # {}
    THEN Message("out_of_stock", {}, TRUE)
  ELSE IF errorMessage.text # "" THEN errorMessage
  ELSE Message("Failed to add to cart", {}, TRUE)

\* error.message of the Error the try block throws on a not-ok reply
ThrownMessage(errorMessage) ==
  IF errorMessage.phrases \cap Phrases # {} THEN Message("out_of_stock", {}, TRUE)
  ELSE IF errorMessage.text # "" THEN errorMessage
  ELSE Message("Failed to add to cart", {}, TRUE)

\* errorText of the catch block
ErrorText(message) ==
  IF message.text = "out_of_stock" THEN OutOfStockText
  ELSE IF message.text # "" /\ message.short THEN <<message.text, 0>>
  ELSE TryAgainText

\* ProductItems that pushes every line with quantity 1
RECURSIVE ProductItems_NoQty(_, _)
ProductItems_NoQty(sp, keys) ==
  IF keys = <<>> THEN <<>>
  ELSE (IF sp[Head(keys)].id # 0
          THEN <<[id |-> sp[Head(keys)].id, quantity |-> 1]>>
          ELSE <<>>)
       \o ProductItems_NoQty(sp, Tail(keys))

\* the items pushed for the selected products, in Object.entries order
RECURSIVE ProductItems(_, _)
ProductItems(sp, keys) ==
  IF keys = <<>> THEN <<>>
  ELSE (IF sp[Head(keys)].id # 0
          THEN <<[id |-> sp[Head(keys)].id, quantity |-> OrOne(sp[Head(keys)].quantity)]>>
          ELSE <<>>)
       \o ProductItems(sp, Tail(keys))

\* the items pushed for the selected accessories, in catalog order
RECURSIVE AccessoryCartItems(_, _)
AccessoryCartItems(accs, sa) ==
  IF accs = <<>> THEN <<>>
  ELSE (IF sa[Head(accs).blockId] /\ Head(accs).id # 0
          THEN <<[id |-> Head(accs).id, quantity |-> 1]>> ELSE <<>>)
       \o AccessoryCartItems(Tail(accs), sa)

CartItems(d, sp, sa) ==
  ProductItems(sp, KeysOf(DOMAIN sp)) \o AccessoryCartItems(d.accessories, sa)

\* a pending setTimeout callback.  A restore callback closes over
\* originalText; outcome tells the callback of the try block (2000 ms) from
\* that of the catch block (2500 ms)
NoticeTimer == [kind |-> "notice", originalText |-> UnsetText, outcome |-> "notice"]
RestoreTimer(originalText, outcome) ==
  [kind |-> "restore", originalText |-> originalText, outcome |-> outcome]

Notices == Len(SelectSeq(timers, LAMBDA t : t.kind = "notice"))
Restores == Len(SelectSeq(timers, LAMBDA t : t.kind = "restore"))

\* the branch for an empty items array: the notice and its 2000 ms timer
NothingSelected ==
  /\ Notices < MaxTimers
  /\ button' = [button EXCEPT !.text = SelectFirstText]
  /\ timers' = Append(timers, NoticeTimer)
  /\ UNCHANGED subs

\* StartSubmit that leaves the button enabled
StartSubmit_NoDisable(items) ==
  /\ Len(subs) + Restores < MaxSubs
  /\ button' = [button EXCEPT !.originalText = button.text, !.text = AddingText]
  /\ subs' = Append(subs, [awaiting |-> "/cart/add.js", items |-> items,
                           originalText |-> button.text])
  /\ UNCHANGED timers

\* the button is disabled and the add request is issued
StartSubmit(items) ==
  /\ Len(subs) + Restores < MaxSubs
  /\ button' = [button EXCEPT !.disabled = TRUE, !.originalText = button.text,
                              !.text = AddingText]
  /\ subs' = Append(subs, [awaiting |-> "/cart/add.js", items |-> items,
                           originalText |-> button.text])
  /\ UNCHANGED timers

\* handleAddToCart without the test items.length === 0
handleAddToCart_NoEmptyCheck ==
  /\ ~button.disabled
  /\ StartSubmit(CartItems(data, selectedProducts, selectedAccessories))
  /\ UNCHANGED <<observers, cartCount, data, state, selectedProducts, selectedAccessories, chips,
                 cards, accCards, summary>>

\* a click on the add-to-cart button, up to its first await
handleAddToCart ==
  /\ ~button.disabled
  /\ IF CartItems(data, selectedProducts, selectedAccessories) = <<>>
       THEN NothingSelected
       ELSE StartSubmit(CartItems(data, selectedProducts, selectedAccessories))
  /\ UNCHANGED <<observers, cartCount, data, state, selectedProducts, selectedAccessories, chips,
                 cards, accCards, summary>>

RemoveAt(seq, i) == SubSeq(seq, 1, i - 1) \o SubSeq(seq, i + 1, Len(seq))

\* Catch that issues the add request again instead of giving up
Catch_Retry(i, message) ==
  /\ subs' = [subs EXCEPT ![i].awaiting = "/cart/add.js"]
  /\ UNCHANGED <<button, timers>>

\* the catch block: the error text and its 2500 ms timer
Catch(i, message) ==
  /\ button' = [button EXCEPT !.text = ErrorText(message)]
  /\ timers' = Append(timers, RestoreTimer(subs[i].originalText, "failed"))
  /\ subs' = RemoveAt(subs, i)

\* the add request of invocation i is answered: on success the cart request
\* is issued
AddReply(i, reply) ==
  /\ i \in 1..Len(subs)
  /\ subs[i].awaiting = "/cart/add.js"
  /\ IF reply.kind = "ok"
       THEN /\ subs' = [subs EXCEPT ![i].awaiting = "/cart.js", ![i].items = <<>>]
            /\ UNCHANGED <<button, timers>>
       ELSE Catch(i, IF reply.kind = "not-ok" THEN ThrownMessage(ErrorMessage(reply))
                     ELSE reply.error)
  /\ UNCHANGED <<observers, cartCount, data, state, selectedProducts, selectedAccessories, chips,
                 cards, accCards, summary>>

\* Succeed that neither writes the count nor dispatches the events
Succeed_NoNotify(i, cart) ==
  /\ UNCHANGED cartCount
  /\ button' = [button EXCEPT !.text = AddedText]
  /\ timers' = Append(timers, RestoreTimer(subs[i].originalText, "succeeded"))
  /\ subs' = RemoveAt(subs, i)

\* the rest of the try block: updateCartCount, the cart:change and
\* cart:refresh events, 'Added!' and its 2000 ms timer
Succeed(i, cart) ==
  /\ cartCount' = IF observers THEN cart.item_count ELSE cartCount
  /\ button' = [button EXCEPT !.text = AddedText]
  /\ timers' = Append(timers, RestoreTimer(subs[i].originalText, "succeeded"))
  /\ subs' = RemoveAt(subs, i)

\* CartReply that empties the ledger once the cart was read
CartReply_ClearLedger(i, reply) ==
  /\ i \in 1..Len(subs)
  /\ subs[i].awaiting = "/cart.js"
  /\ IF reply.kind = "throws"
       THEN Catch(i, reply.error) /\ UNCHANGED <<cartCount, selectedProducts>>
       ELSE Succeed(i, reply) /\ selectedProducts' = <<>>
  /\ UNCHANGED <<observers, data, state, selectedAccessories, chips, cards, accCards,
                 summary>>

\* the cart request of invocation i is answered
CartReply(i, reply) ==
  /\ i \in 1..Len(subs)
  /\ subs[i].awaiting = "/cart.js"
  /\ IF reply.kind = "throws"
       THEN Catch(i, reply.error) /\ UNCHANGED cartCount
       ELSE Succeed(i, reply)
  /\ UNCHANGED <<observers, data, state, selectedProducts, selectedAccessories, chips,
                 cards, accCards, summary>>

\* TimerFires whose restore callback leaves the button disabled
TimerFires_KeepDisabled ==
  /\ timers # <<>>
  /\ timers' = Tail(timers)
  /\ button' = IF Head(timers).kind = "notice"
                 THEN [button EXCEPT !.text = IF button.originalText # UnsetText
                                                THEN button.originalText ELSE BaseText]
                 ELSE [button EXCEPT !.text = Head(timers).originalText]
  /\ UNCHANGED <<observers, cartCount, data, state, selectedProducts, selectedAccessories,
                 chips, cards, accCards, summary, subs>>

\* the oldest pending setTimeout callback runs
TimerFires ==
  /\ timers # <<>>
  /\ timers' = Tail(timers)
  /\ button' = IF Head(timers).kind = "notice"
                 THEN [button EXCEPT !.text = IF button.originalText # UnsetText
                                                THEN button.originalText ELSE BaseText]
                 ELSE [button EXCEPT !.text = Head(timers).originalText,
                                     !.disabled = FALSE]
  /\ UNCHANGED <<observers, cartCount, data, state, selectedProducts, selectedAccessories, chips,
                 cards, accCards, summary, subs>>

-----------------------------------------------------------------------------
(* The component's behaviours *)

Deltas == {-1, 1}

Next ==
  \/ \E t \in TypeSet : handleProductCardClick(t)
  \/ \E b \in BlockIds(data) : handleAccessoryCardClick(b)
  \/ \E v \in VariantIds : handleRemoveFromSummary(v)
  \/ \E b \in BlockIds(data) : handleRemoveAccessoryFromSummary(b)
  \/ \E v \in VariantIds, delta \in Deltas : handleQuantityChange(v, delta)
  \/ \E f \in Fields : \E value \in ChipValues(f) : handleChipClick(f, value)
  \/ handleAddToCart
  \/ \E i \in 1..Len(subs) : \E r \in AddReplies : AddReply(i, r)
  \/ \E i \in 1..Len(subs) : \E r \in CartReplies : CartReply(i, r)
  \/ TimerFires

Spec == Init /\ [][Next]_vars

\* the behaviours in which every request is answered, by success or by
\* failure, and every pending timer fires: the transport settles each fetch
\* and the event loop runs each setTimeout callback
LiveSpec ==
  /\ Spec
  /\ WF_vars(\E i \in 1..Len(subs) : \E r \in AddReplies : AddReply(i, r))
  /\ WF_vars(\E i \in 1..Len(subs) : \E r \in CartReplies : CartReply(i, r))
  /\ WF_vars(TimerFires)

\* handleChipClick is also a public method of the element: the behaviours in
\* which it is also called with an optic-model chip the component has not
\* rendered, of a handle of the catalog or of the handle "mx" that no catalog
\* holds
UnknownHandle == "mx"

AnyModelValues == SeqSet(Handles(data.opticModels)) \cup {UnknownHandle}

ApiNext ==
  \/ Next
  \/ \E value \in AnyModelValues : handleChipClick("optic-model", value)

ApiSpec == Init /\ [][ApiNext]_vars

\* CatalogStock after a restock: the phone case of pm2 is in stock
CatalogRestocked == [CatalogStock EXCEPT !.phoneModels[1].phoneCase.available = TRUE]

\* the page is loaded again: the catalog reaches the component only through
\* loadData, which runs once, in connectedCallback; a new component is
\* constructed and connected, and nothing of the old one is kept
Reload(raw, o) ==
  LET c == connectedCallback(raw, o)
  IN /\ data' = loadData(raw)
     /\ observers' = o
     /\ state' = c.state
     /\ selectedProducts' = c.selectedProducts
     /\ selectedAccessories' = c.selectedAccessories
     /\ chips' = c.chips
     /\ cards' = c.cards
     /\ accCards' = c.accCards
     /\ summary' = c.summary
     /\ button' = c.button
     /\ subs' = c.subs
     /\ timers' = c.timers
     /\ cartCount' = c.cartCount

\* the behaviours of the component on the page of CatalogStock, which is also
\* loaded again with the restocked catalog
RestockNext ==
  \/ Next
  \/ data = CatalogStock /\ Reload(RawOf(CatalogRestocked), observers)

RestockSpec == InitWith(RawOf(CatalogStock), FALSE) /\ [][RestockNext]_vars

\* the contents a script element of the page can have: none (the element is
\* missing), a text JSON.parse throws on, or the JSON text of a catalog section
LoadContents(f) ==
  {Missing, Unparseable,
   Json(IF f = "adapterProduct" THEN V5
        ELSE IF f = "accessories" THEN CatalogAdapter.accessories
        ELSE CatalogPhone[f])}

LoadPages ==
  [opticBrands : LoadContents("opticBrands"), opticModels : LoadContents("opticModels"),
   phoneBrands : LoadContents("phoneBrands"), phoneModels : LoadContents("phoneModels"),
   adapterProduct : LoadContents("adapterProduct"),
   accessories : LoadContents("accessories")]

\* the component is constructed and connected on any of these pages, with or
\* without cart-count elements; a page without sections is left for any of
\* them (a new component keeps nothing of the old one, so the page that is
\* left makes no difference to the one that is loaded)
LoadNext == data = EmptyData /\ \E raw \in LoadPages, o \in BOOLEAN : Reload(raw, o)

LoadSpec == (\E raw \in LoadPages, o \in BOOLEAN : InitWith(raw, o)) /\ [][LoadNext]_vars

-----------------------------------------------------------------------------
(* Reference quantities the claims are stated with, computed from the ledger
   alone and not by the summary's loops *)

RECURSIVE RefLineSum(_, _, _)
RefLineSum(sp, S, withPrice) ==
  IF S = {} THEN 0
  ELSE LET v == CHOOSE x \in S : TRUE
       IN (IF withPrice THEN sp[v].price * sp[v].quantity ELSE sp[v].quantity)
          + RefLineSum(sp, S \ {v}, withPrice)

RECURSIVE RefAccessorySum(_, _, _)
RefAccessorySum(accs, sa, withPrice) ==
  IF accs = <<>> THEN 0
  ELSE (IF sa[Head(accs).blockId] THEN (IF withPrice THEN Head(accs).price ELSE 1) ELSE 0)
       + RefAccessorySum(Tail(accs), sa, withPrice)

RefTotal ==
  RefLineSum(selectedProducts, DOMAIN selectedProducts, TRUE)
  + RefAccessorySum(data.accessories, selectedAccessories, TRUE)

RefItemCount ==
  RefLineSum(selectedProducts, DOMAIN selectedProducts, FALSE)
  + RefAccessorySum(data.accessories, selectedAccessories, FALSE)

SelectionEmpty ==
  /\ DOMAIN selectedProducts = {}
  /\ \A b \in DOMAIN selectedAccessories : ~selectedAccessories[b]

\* the card of container t can be clicked
Clickable(t) == cards[t].variantId # 0 /\ ~cards[t].hidden

-----------------------------------------------------------------------------
(* C1: in every reachable state the grand total the summary shows is the
   sum over the lines of unit price x quantity plus the sum of the unit
   prices of the selected accessories. *)
C1_TotalIsSum == summary.total = formatMoney(RefTotal)

\* a line of quantity 2 and a selected accessory are summed: 2 x 2000 + 150
C1_Witness ==
  /\ 5 \in DOMAIN selectedProducts
  /\ selectedProducts[5].quantity = 2
  /\ selectedAccessories["a3"]
  /\ summary.total = <<41, 50>>

-----------------------------------------------------------------------------
(* C2: each add of an available, resolved variant creates its line with
   quantity 1 when it has none and otherwise adds 1 to the line's quantity,
   so n adds from no line leave one line of quantity n; the summary lists
   the variant once. *)
C2_AddIncrements ==
  [][\A t \in TypeSet :
       (/\ handleProductCardClick(t)
        /\ cards[t].available
        /\ state[StateKey(t)].id = cards[t].variantId)
       => LET v == cards[t].variantId IN
          /\ v \in DOMAIN selectedProducts'
          /\ selectedProducts'[v].quantity =
               (IF v \in DOMAIN selectedProducts
                  THEN selectedProducts[v].quantity ELSE 0) + 1
          /\ Len(SelectSeq(summary'.items, LAMBDA it : it.variantId = v)) = 1]_vars

\* two adds have left one line of quantity 2 for the ring mount
C2_Witness ==
  /\ 2 \in DOMAIN selectedProducts
  /\ selectedProducts[2].quantity = 2
  /\ Len(SelectSeq(summary.items, LAMBDA it : it.variantId = 2)) = 1
  /\ cards["ring-mount"].selected

-----------------------------------------------------------------------------
(* C3: every line of the ledger has an integer quantity of at least 1. *)
C3_QuantityPositive ==
  \A v \in DOMAIN selectedProducts :
    /\ selectedProducts[v].quantity \in Nat
    /\ selectedProducts[v].quantity >= 1

\* a line sits at quantity 1, where a decrement deletes it, beside a line
\* at the largest quantity
C3_Witness ==
  \E v, w \in DOMAIN selectedProducts :
    /\ selectedProducts[v].quantity = 1
    /\ selectedProducts[w].quantity = MaxQty

-----------------------------------------------------------------------------
(* C4: changeQuantity(id, delta) changes nothing when id has no line;
   deletes the line when quantity + delta <= 0; and otherwise sets the
   line's quantity to quantity + delta. *)
C4_NoLineNoChange ==
  \A v \in VariantIds, delta \in Deltas :
    v \notin DOMAIN selectedProducts
    => /\ ENABLED handleQuantityChange(v, delta)
       /\ ~ENABLED (handleQuantityChange(v, delta) /\ vars' # vars)

C4_LineChanged ==
  \A v \in DOMAIN selectedProducts, delta \in Deltas :
    handleQuantityChange(v, delta)
    => IF selectedProducts[v].quantity + delta <= 0
         THEN v \notin DOMAIN selectedProducts'
         ELSE /\ v \in DOMAIN selectedProducts'
              /\ selectedProducts'[v].quantity = selectedProducts[v].quantity + delta

C4_ChangeQuantity == [](C4_NoLineNoChange) /\ [][C4_LineChanged]_vars

\* the ring mount's line was decremented away while the mag ring's stays at 2
C4_Witness ==
  /\ cards["ring-mount"].variantId = 2
  /\ 2 \notin DOMAIN selectedProducts
  /\ 1 \in DOMAIN selectedProducts
  /\ selectedProducts[1].quantity = 2

-----------------------------------------------------------------------------
(* C5: an add of a variant whose card is marked unavailable changes nothing
   at all, and no variant the catalog marks unavailable is ever a line. *)
UnavailableIds ==
  {v.id : v \in {x \in
     {data.opticModels[i].ringMount : i \in 1..Len(data.opticModels)}
     \cup {data.opticModels[i].magRing : i \in 1..Len(data.opticModels)}
     \cup {data.phoneModels[i].phoneCase : i \in 1..Len(data.phoneModels)}
     \cup {data.adapterProduct} : x.id # 0 /\ x.available = FALSE}}

C5_UnavailableRejected ==
  /\ \A t \in TypeSet :
       (Clickable(t) /\ cards[t].variantId \in UnavailableIds)
       => /\ ENABLED handleProductCardClick(t)
          /\ ~ENABLED (handleProductCardClick(t) /\ vars' # vars)
  /\ \A v \in DOMAIN selectedProducts : v \notin UnavailableIds

\* the out-of-stock phone case is on its card, next to a line of the other case
C5_Witness ==
  /\ Clickable("phone-case")
  /\ cards["phone-case"].variantId = 3
  /\ 4 \in DOMAIN selectedProducts

-----------------------------------------------------------------------------
(* C6: choosing a brand sets the configuration's brand, clears its model and
   its resolved variants, and leaves the ledger as it was. *)
C6_BrandChosen ==
  /\ \A b \in SeqSet(data.opticBrands) :
       handleChipClick("optic-brand", b)
       => /\ state'.opticBrand = b
          /\ state'.opticModel = NullHandle
          /\ state'.ringMount = NoVariant
          /\ state'.ringMountVariantId = 0
          /\ state'.magRing = NoVariant
          /\ selectedProducts' = selectedProducts
  /\ \A b \in SeqSet(data.phoneBrands) :
       handleChipClick("phone-brand", b)
       => /\ state'.phoneBrand = b
          /\ state'.phoneModel = NullHandle
          /\ state'.phoneCase = NoVariant
          /\ selectedProducts' = selectedProducts

C6_ChooseBrand == [][C6_BrandChosen]_vars

\* brand b2 is chosen with no model, and the mag ring of b1's model is
\* still a line, of quantity 2
C6_Witness ==
  /\ state.opticBrand = "b2"
  /\ state.opticModel = NullHandle
  /\ state.ringMount = NoVariant
  /\ 1 \in DOMAIN selectedProducts
  /\ selectedProducts[1].quantity = 2

-----------------------------------------------------------------------------
(* C7: the item count of the summary is the sum of the lines' quantities
   plus the number of selected accessories, whatever the prices are. *)
C7_ItemCount == summary.itemCount = RefItemCount

-----------------------------------------------------------------------------
(* C8: at most one submission is under way (awaiting a reply or showing its
   result); while one is, the button is disabled and no click on it is
   taken. *)
C8_OneInFlight ==
  /\ Len(subs) + Restores <= 1
  /\ Len(subs) + Restores >= 1 => (button.disabled /\ ~ENABLED handleAddToCart)

\* one submission awaits its cart read while an older notice timer is pending
C8_Witness ==
  /\ Len(subs) = 1
  /\ subs[1].awaiting = "/cart.js"
  /\ Notices = 1
  /\ button.disabled

-----------------------------------------------------------------------------
(* C9: a submit with nothing selected issues no request, starts no
   submission, leaves the button enabled and shows the notice. *)
C9_EmptySubmitStep ==
  (handleAddToCart /\ SelectionEmpty)
  => /\ subs' = <<>>
     /\ Restores' = 0
     /\ UNCHANGED subs
     /\ ~button'.disabled
     /\ button'.text = SelectFirstText
     /\ timers' = Append(timers, NoticeTimer)
     /\ UNCHANGED <<selectedProducts, selectedAccessories, summary>>

C9_EmptySubmit == [][C9_EmptySubmitStep]_vars

\* the notice is showing over an empty selection, with no submission
C9_Witness ==
  /\ SelectionEmpty
  /\ button.text = SelectFirstText
  /\ ~button.disabled
  /\ timers = <<NoticeTimer>>
  /\ subs = <<>>

-----------------------------------------------------------------------------
(* C10: a submit with a non-empty selection starts the one submission and
   issues one add request whose items are one {id, quantity} per line and
   one {id, 1} per selected accessory. *)
RefItems ==
  {[id |-> v, quantity |-> selectedProducts[v].quantity] : v \in DOMAIN selectedProducts}
  \cup {[id |-> data.accessories[i].id, quantity |-> 1] :
          i \in {j \in 1..Len(data.accessories) :
                   selectedAccessories[data.accessories[j].blockId]}}

C10_SubmitStep ==
  (handleAddToCart /\ ~SelectionEmpty)
  => /\ subs = <<>>
     /\ Len(subs') = 1
     /\ subs'[1].awaiting = "/cart/add.js"
     /\ SeqSet(subs'[1].items) = RefItems
     /\ Len(subs'[1].items) = Cardinality(RefItems)
     /\ button'.disabled
     /\ button'.text = AddingText
     /\ UNCHANGED timers

C10_SubmitItems == [][C10_SubmitStep]_vars

\* the request in flight carries the adapter twice and the free accessory once
C10_Witness ==
  /\ Len(subs) = 1
  /\ subs[1].awaiting = "/cart/add.js"
  /\ subs[1].items = <<[id |-> 5, quantity |-> 2], [id |-> 11, quantity |-> 1]>>

-----------------------------------------------------------------------------
(* The submitter's state as the timers record it: a submission shows
   Succeeded or Failed from the step that arms its restore timer until that
   timer fires *)

LastTimer(ts) == ts[Len(ts)]

\* this step ends submission i by arming a restore timer of the outcome
Ends(i, outcome) ==
  /\ subs' = RemoveAt(subs, i)
  /\ Len(timers') = Len(timers) + 1
  /\ LastTimer(timers').kind = "restore"
  /\ LastTimer(timers').outcome = outcome
  /\ IF outcome = "succeeded" THEN button'.text = AddedText
                              ELSE button'.text # AddedText

-----------------------------------------------------------------------------
(* C11: when the add call of a submission succeeded and its cart-read call
   fails, by a rejection or by a non-2xx answer, the submission ends
   Succeeded, showing 'Added!', and never Failed. *)
C11_CartReadFailure ==
  [][\A i \in 1..Len(subs) : \A r \in CartReplies :
       (CartReply(i, r) /\ r.kind # "ok")
       => (Ends(i, "succeeded") /\ button'.text = AddedText)]_vars

-----------------------------------------------------------------------------
(* C12: the step that shows Succeeded hands the observers the item count the
   cart-read call returned, and the observers' count changes in no other
   step: not when the add call failed, not on a submit with nothing selected. *)
C12_NotifyStep ==
  /\ \A i \in 1..Len(subs) : \A r \in CartReplies :
       (CartReply(i, r) /\ Ends(i, "succeeded") /\ observers)
       => cartCount' = r.item_count
  /\ cartCount' # cartCount
     => \E i \in 1..Len(subs) : \E r \in CartReplies :
          /\ subs[i].awaiting = "/cart.js"
          /\ r.kind # "throws"
          /\ CartReply(i, r)
          /\ Ends(i, "succeeded")

C12_Notified == [][C12_NotifyStep]_vars

\* 'Added!' is showing and the observers hold the count the cart read gave
C12_Witness ==
  /\ observers
  /\ cartCount = MaxCartCount
  /\ Restores = 1
  /\ LastTimer(timers).outcome = "succeeded"
  /\ button.text = AddedText

-----------------------------------------------------------------------------
(* C13, as claimed: a failed add call ends the submission Failed, with the
   reason OutOfStock exactly when the answer was non-2xx and its description
   contains one of the three phrases. *)
C13_DescriptionOnly ==
  [][\A i \in 1..Len(subs) : \A r \in AddReplies :
       (AddReply(i, r) /\ r.kind # "ok")
       => /\ Ends(i, "failed")
          /\ (button'.text = OutOfStockText)
             <=> (r.kind = "not-ok" /\ r.description.phrases \cap Phrases # {})]_vars

\* the text the handler classifies: the description, or the message when the
\* description is empty or absent
RefErrorText(r) == IF r.description.text = "" THEN r.message ELSE r.description

(* C13, amended: the reason is OutOfStock exactly when the answer was non-2xx
   and its description or, when that is empty, its message contains one of
   the three phrases whatever the case of its letters, or is 'out_of_stock';
   every other failed add call and every rejected cart read ends the
   submission Failed with another reason. *)
C13_ClassifyStep ==
  /\ \A i \in 1..Len(subs) : \A r \in AddReplies :
       (AddReply(i, r) /\ r.kind # "ok")
       => /\ Ends(i, "failed")
          /\ (button'.text = OutOfStockText)
             <=> /\ r.kind = "not-ok"
                 /\ \/ RefErrorText(r).phrases \cap Phrases # {}
                    \/ RefErrorText(r).text = "out_of_stock"
  /\ \A i \in 1..Len(subs) : \A r \in CartReplies :
       (CartReply(i, r) /\ r.kind = "throws")
       => /\ Ends(i, "failed")
          /\ button'.text # OutOfStockText

C13_Classified == [][C13_ClassifyStep]_vars

\* a submission has ended Failed with the reason OutOfStock
C13_Witness ==
  /\ Restores = 1
  /\ LastTimer(timers).outcome = "failed"
  /\ button.text = OutOfStockText
  /\ button.disabled

-----------------------------------------------------------------------------
(* C14: no step of a submission (the click with or without a selection, the
   answer of either call whatever it is, the timer that ends the result)
   changes the lines, their quantities or the selected accessories. *)
C14_SubmitStep ==
  \/ handleAddToCart
  \/ \E i \in 1..Len(subs) : \E r \in AddReplies : AddReply(i, r)
  \/ \E i \in 1..Len(subs) : \E r \in CartReplies : CartReply(i, r)
  \/ TimerFires

C14_LedgerKept ==
  [][C14_SubmitStep => UNCHANGED <<selectedProducts, selectedAccessories>>]_vars

\* a submission has ended Succeeded and what it submitted is still selected
C14_Witness ==
  /\ Restores = 1
  /\ LastTimer(timers).outcome = "succeeded"
  /\ 5 \in DOMAIN selectedProducts
  /\ selectedProducts[5].quantity = 2
  /\ selectedAccessories["a1"]

-----------------------------------------------------------------------------
(* C15: the requests in flight change only in three ways: a click issues the
   add request of a new submission; a successful answer to an add request
   replaces it by that submission's cart request; any other answer to either
   request ends the submission, with no request left.  So a submission issues
   one add request, at most one cart request and only after the add
   succeeded, and none after a failure. *)
C15_RequestStep ==
  subs' # subs
  => \/ /\ handleAddToCart
        /\ Len(subs') = Len(subs) + 1
        /\ SubSeq(subs', 1, Len(subs)) = subs
        /\ LastTimer(subs').awaiting = "/cart/add.js"
     \/ \E i \in 1..Len(subs) :
          /\ subs[i].awaiting = "/cart/add.js"
          /\ \E r \in AddReplies : r.kind = "ok" /\ AddReply(i, r)
          /\ Len(subs') = Len(subs)
          /\ \A j \in 1..Len(subs) : j # i => subs'[j] = subs[j]
          /\ subs'[i].awaiting = "/cart.js"
          /\ UNCHANGED timers
     \/ \E i \in 1..Len(subs) :
          \/ Ends(i, "failed")
          \/ Ends(i, "succeeded") /\ subs[i].awaiting = "/cart.js"

C15_NoRetry == [][C15_RequestStep]_vars

\* the add request was answered with success and the cart request is the
\* only request in flight
C15_Witness ==
  /\ Len(subs) = 1
  /\ subs[1].awaiting = "/cart.js"
  /\ subs[1].items = <<>>
  /\ timers = <<>>
  /\ button.text = AddingText

-----------------------------------------------------------------------------
(* C16: when every request is answered and every timer fires, every state
   with the button disabled or with the notice 'Select products first'
   showing is followed by a state in which the button is enabled, no
   submission is under way, no result is showing and the notice is gone; and
   the button is enabled again only by the timer of a result, Succeeded or
   Failed, that the submission came to show. *)
Idle == Len(subs) = 0 /\ Restores = 0 /\ ~button.disabled

Transient == button.disabled \/ button.text = SelectFirstText

Settled == Idle /\ button.text # SelectFirstText

C16_EnabledByResult ==
  (button.disabled /\ ~button'.disabled)
  => /\ subs = <<>>
     /\ Restores = 1
     /\ Head(timers).kind = "restore"
     /\ Head(timers).outcome \in {"succeeded", "failed"}
     /\ TimerFires

C16_Transient ==
  /\ [][C16_EnabledByResult]_vars
  /\ Transient ~> Settled

\* a submission has run to its end: the button is enabled again over the
\* count label that the submission stored as its original text
C16_Witness ==
  /\ Idle
  /\ timers = <<>>
  /\ button.originalText = CountText(2)
  /\ button.text = CountText(2)


-----------------------------------------------------------------------------
(* C17: after a model is chosen on a configuration whose brand is chosen,
   the resolved variants are exactly the variants the catalog holds for that
   model: a role the model does not define is absent, and when the catalog
   holds no model of that handle every role is absent. *)
\* the variant the catalog holds for the model of this handle in this role,
\* none when no model has the handle
RefVariant(models, handle, role) ==
  LET found == {i \in 1..Len(models) : models[i].handle = handle}
  IN IF found = {} THEN NoVariant ELSE models[Min(found)][role]

C17_ModelChosen ==
  /\ \A value \in AnyModelValues :
       (state.opticBrand # NullHandle /\ handleChipClick("optic-model", value))
       => /\ state'.opticModel = value
          /\ state'.ringMount = RefVariant(data.opticModels, value, "ringMount")
          /\ state'.ringMountVariantId = state'.ringMount.id
          /\ state'.magRing = RefVariant(data.opticModels, value, "magRing")
  /\ \A value \in SeqSet(chips.phone) :
       (state.phoneBrand # NullHandle /\ handleChipClick("phone-model", value))
       => /\ state'.phoneModel = value
          /\ state'.phoneCase = RefVariant(data.phoneModels, value, "phoneCase")

C17_ChooseModel == [][C17_ModelChosen]_vars


-----------------------------------------------------------------------------
(* C18: choosing a model on a configuration whose brand has not been chosen
   changes nothing: the chosen model stays unset and the resolved variants
   and their cards stay as they were. *)
C18_NoBrand ==
  \A value \in AnyModelValues :
    (state.opticBrand = NullHandle /\ handleChipClick("optic-model", value))
    => /\ state'.opticModel = NullHandle
       /\ state'.ringMount = NoVariant
       /\ state'.ringMountVariantId = 0
       /\ state'.magRing = NoVariant
       /\ cards' = cards

C18_NoBrandNoOp == [][C18_NoBrand]_vars


-----------------------------------------------------------------------------
(* C19: the model chips a brand choice renders are exactly the catalog's
   models whose brandHandle is that brand, each once and in the catalog's
   order; none for a brand that has no model. *)
\* the handles of the models of this brand, by ascending catalog position
RefModelsForBrand(models, brand) ==
  LET keys == KeysOf({i \in 1..Len(models) : models[i].brandHandle = brand})
  IN [k \in 1..Len(keys) |-> models[keys[k]].handle]

C19_BrandStep ==
  /\ \A b \in SeqSet(data.opticBrands) :
       handleChipClick("optic-brand", b)
       => chips'.optic = RefModelsForBrand(data.opticModels, b)
  /\ \A b \in SeqSet(data.phoneBrands) :
       handleChipClick("phone-brand", b)
       => chips'.phone = RefModelsForBrand(data.phoneModels, b)

C19_ModelsForBrand == [][C19_BrandStep]_vars

\* the two models of phone brand p1 are offered in catalog order, and optic
\* brand b1 offers its one model
C19_Witness ==
  /\ state.phoneBrand = "p1"
  /\ chips.phone = <<"pm1", "pm2">>
  /\ state.opticBrand = "b1"
  /\ chips.optic = <<"m1">>


-----------------------------------------------------------------------------
(* C20: the summary's list holds every line of the ledger exactly once and
   every selected accessory exactly once and nothing else; the ring-mount
   lines come before the mag-ring lines, these before the adapter lines, these
   before the phone-case lines, and the selected accessories follow, in
   catalog order. *)
\* the place of a type in the list: the four line types, then accessories
TypeRank(productType) ==
  CASE productType = "ring-mount" -> 1
    [] productType = "mag-ring" -> 2
    [] productType = "adapter" -> 3
    [] productType = "phone-case" -> 4
    [] productType = "accessory" -> 5

\* the catalog position of the accessory of this block id
AccessoryPlace(blockId) ==
  Min({i \in 1..Len(data.accessories) : data.accessories[i].blockId = blockId})

LineOccurrences(items, variantId) ==
  Cardinality({k \in 1..Len(items) : /\ items[k].kind = "product"
                                     /\ items[k].variantId = variantId
                                     /\ items[k].productType
                                          = selectedProducts[variantId].productType})

AccessoryOccurrences(items, blockId) ==
  Cardinality({k \in 1..Len(items) : /\ items[k].kind = "accessory"
                                     /\ items[k].blockId = blockId})

C20_SummaryOrder ==
  LET items == summary.items
      selected == {b \in DOMAIN selectedAccessories : selectedAccessories[b]}
  IN /\ \A v \in DOMAIN selectedProducts : LineOccurrences(items, v) = 1
     /\ \A b \in selected : AccessoryOccurrences(items, b) = 1
     /\ Len(items) = Cardinality(DOMAIN selectedProducts) + Cardinality(selected)
     /\ \A j, k \in 1..Len(items) :
          j < k => /\ TypeRank(items[j].productType) <= TypeRank(items[k].productType)
                   /\ (items[j].kind = "accessory" /\ items[k].kind = "accessory")
                      => AccessoryPlace(items[j].blockId) < AccessoryPlace(items[k].blockId)

\* the ring-mount line of variant 2 is listed before the mag-ring line of
\* variant 1, against the order of their ids
C20_Witness ==
  /\ Len(summary.items) = 2
  /\ summary.items[1].productType = "ring-mount"
  /\ summary.items[1].variantId = 2
  /\ summary.items[2].productType = "mag-ring"
  /\ summary.items[2].variantId = 1


-----------------------------------------------------------------------------
(* C21: in every reachable state exactly one of the empty-state message and
   the footer is shown, and the footer is the one shown exactly when the
   ledger has a line or an accessory is selected. *)
C21_Flags ==
  LET selectionIsEmpty == ~summary.emptyHidden
      selectionIsNonEmpty == ~summary.footerHidden
  IN /\ selectionIsEmpty # selectionIsNonEmpty
     /\ selectionIsNonEmpty
        <=> \/ DOMAIN selectedProducts # {}
            \/ \E b \in DOMAIN selectedAccessories : selectedAccessories[b]

\* the footer is shown for a selection that is one accessory and no line
C21_Witness ==
  /\ DOMAIN selectedProducts = {}
  /\ DOMAIN selectedAccessories # {}
  /\ \A b \in DOMAIN selectedAccessories : selectedAccessories[b] <=> b = "a3"
  /\ ~summary.footerHidden
  /\ summary.emptyHidden


-----------------------------------------------------------------------------
(* C22: a click on the card of an available accessory flips that accessory's
   selected flag and no other; a click on the card of an unavailable
   accessory that is not selected changes nothing at all; and no accessory
   the catalog marks unavailable is ever selected. *)
UnavailableBlockIds ==
  {data.accessories[i].blockId : i \in
     {j \in 1..Len(data.accessories) : data.accessories[j].available = FALSE}}

C22_ToggleStep ==
  \A b \in BlockIds(data) \ UnavailableBlockIds :
    handleAccessoryCardClick(b)
    => /\ selectedAccessories'[b] = ~selectedAccessories[b]
       /\ \A c \in BlockIds(data) \ {b} : selectedAccessories'[c] = selectedAccessories[c]
       /\ selectedProducts' = selectedProducts

C22_Rejected ==
  \A b \in UnavailableBlockIds :
    /\ ~selectedAccessories[b]
    /\ ENABLED handleAccessoryCardClick(b)
    /\ ~ENABLED (handleAccessoryCardClick(b) /\ vars' # vars)

C22_ToggleStandalone == []C22_Rejected /\ [][C22_ToggleStep]_vars

\* the out-of-stock accessory is on its card, not selected, next to a line
C22_Witness ==
  /\ UnavailableBlockIds = {"a2"}
  /\ ~accCards["a2"].available
  /\ ~selectedAccessories["a2"]
  /\ DOMAIN selectedProducts = {2}
  /\ selectedProducts[2].quantity = 2


-----------------------------------------------------------------------------
(* C23: removing a variant deletes its line whatever the line's quantity and
   leaves the other lines as they are; when the variant has no line, removing
   it changes nothing at all, so that a second removal changes nothing. *)
C23_RemoveStep ==
  \A v \in VariantIds :
    (v \in DOMAIN selectedProducts /\ handleRemoveFromSummary(v))
    => /\ DOMAIN selectedProducts' = DOMAIN selectedProducts \ {v}
       /\ \A w \in DOMAIN selectedProducts' : selectedProducts'[w] = selectedProducts[w]

C23_NoLine ==
  \A v \in VariantIds \ DOMAIN selectedProducts :
    /\ ENABLED handleRemoveFromSummary(v)
    /\ ~ENABLED (handleRemoveFromSummary(v) /\ vars' # vars)

C23_Remove == []C23_NoLine /\ [][C23_RemoveStep]_vars

\* after a submission of four items, the two of variant 2 and the two of
\* variant 1, variant 2 has no line any more and its card is deselected
C23_Witness ==
  /\ button.originalText = CountText(4)
  /\ DOMAIN selectedProducts = {1}
  /\ selectedProducts[1].quantity = 2
  /\ cards["ring-mount"].variantId = 2
  /\ ~cards["ring-mount"].selected


-----------------------------------------------------------------------------
(* C25: whatever the embedded catalog elements hold, initialization
   completes: the adapter that was loaded is taken into the state and shown on
   its card, every loaded accessory has its card, and the summary has been
   rendered (the button has its base label recorded). *)
C25_LoadNeverFails ==
  /\ state.adapter = data.adapterProduct
  /\ cards["adapter"].variantId = data.adapterProduct.id
  /\ DOMAIN accCards = BlockIds(data)
  /\ button.originalText # UnsetText


-----------------------------------------------------------------------------
(* C24: while the variant on a card is flagged unavailable, a click on the
   card changes nothing at all; once the catalog flags it available (the
   page loaded again after a restock), a click on its card, when the variant
   has no line, gives the ledger exactly one more line, that variant's, of
   quantity 1. *)
\* the variant the configuration resolved for the card of container t
Resolved(t) == state[StateKey(t)]

C24_Rejected ==
  \A t \in TypeSet :
    (Clickable(t) /\ Resolved(t).available = FALSE)
    => /\ ENABLED handleProductCardClick(t)
       /\ ~ENABLED (handleProductCardClick(t) /\ vars' # vars)

C24_AddSucceeds ==
  \A t \in TypeSet :
    (/\ Clickable(t)
     /\ Resolved(t).id = cards[t].variantId
     /\ Resolved(t).available
     /\ cards[t].variantId \notin DOMAIN selectedProducts)
    => /\ ENABLED handleProductCardClick(t)
       /\ ~ENABLED (/\ handleProductCardClick(t)
                    /\ ~(/\ DOMAIN selectedProducts'
                              = DOMAIN selectedProducts \cup {cards[t].variantId}
                         /\ selectedProducts'[cards[t].variantId].quantity = 1
                         /\ \A v \in DOMAIN selectedProducts :
                              selectedProducts'[v] = selectedProducts[v]))

C24_Restock == C24_Rejected /\ C24_AddSucceeds

\* the restocked phone case 3, out of stock before the page was loaded again,
\* is the ledger's only line, of quantity 1
C24_Witness ==
  /\ data = CatalogRestocked
  /\ DOMAIN selectedProducts = {3}
  /\ selectedProducts[3].quantity = 1
  /\ cards["phone-case"].variantId = 3
  /\ cards["phone-case"].selected


-----------------------------------------------------------------------------
(* C27: when a submission fails as out of stock, the cards of the selected
   items whose availability flag is false, and no others, are marked; and a
   click on an unavailable card, which is rejected, raises an affordance on
   that card. The affordance is a change of the card, so that the claim
   requires such a click to have a step that changes the card. *)
OffendingCards == {t \in TypeSet : cards[t].selected /\ ~cards[t].available}

OffendingAccessoryCards ==
  {b \in DOMAIN accCards : accCards[b].selected /\ ~accCards[b].available}

\* no out-of-stock failure of a submission marks other cards than these
C27_OutOfStockMarks ==
  ~ENABLED (/\ \E i \in 1..Len(subs) : \E r \in AddReplies : AddReply(i, r)
            /\ button'.text = OutOfStockText
            /\ ~(/\ \A t \in TypeSet : cards'[t] # cards[t] <=> t \in OffendingCards
                 /\ \A b \in DOMAIN accCards :
                      accCards'[b] # accCards[b] <=> b \in OffendingAccessoryCards))

C27_RejectedClick ==
  /\ \A t \in TypeSet :
       (Clickable(t) /\ ~cards[t].available)
       => ENABLED (handleProductCardClick(t) /\ cards'[t] # cards[t])
  /\ \A b \in DOMAIN accCards :
       ~accCards[b].available
       => ENABLED (handleAccessoryCardClick(b) /\ accCards'[b] # accCards[b])

C27_Affordance == C27_OutOfStockMarks /\ C27_RejectedClick


-----------------------------------------------------------------------------
(* C28: a click on a variant's card, a quantity change of a variant and the
   removal of a variant touch that variant's line only: every line of another
   variant stays as it is and no line of another variant appears, and the
   accessory selections and the state of the two configurations (brand,
   model, resolved variants) stay as they are. *)
\* the lines of the variants other than v, the accessory selections and the
\* configurations are the same before and after the step
OthersKept(v) ==
  /\ DOMAIN selectedProducts' \ {v} = DOMAIN selectedProducts \ {v}
  /\ \A w \in DOMAIN selectedProducts \ {v} : selectedProducts'[w] = selectedProducts[w]
  /\ selectedAccessories' = selectedAccessories
  /\ state' = state

C28_LedgerStep ==
  /\ \A t \in TypeSet : handleProductCardClick(t) => OthersKept(cards[t].variantId)
  /\ \A v \in VariantIds :
       /\ handleRemoveFromSummary(v) => OthersKept(v)
       /\ \A delta \in Deltas : handleQuantityChange(v, delta) => OthersKept(v)

C28_Local == [][C28_LedgerStep]_vars

\* next to the mag-ring line of quantity 2 the ring-mount line was added, with
\* model m1 of brand b1 still chosen
C28_Witness ==
  /\ DOMAIN selectedProducts = {1, 2}
  /\ selectedProducts[1].quantity = 2
  /\ selectedProducts[2].quantity = 1
  /\ state.opticBrand = "b1"
  /\ state.opticModel = "m1"
  /\ state.magRing.id = 1


-----------------------------------------------------------------------------
(* C29: a brand or model choice of the optic configuration leaves the phone
   configuration's brand, model and resolved case as they are, and a choice
   of the phone configuration leaves the optic configuration's; a model
   choice leaves the ledger as it is; no choice changes an accessory
   selection; and selecting, deselecting or removing an accessory changes no
   line and no configuration. *)
OpticKept ==
  /\ state'.opticBrand = state.opticBrand
  /\ state'.opticModel = state.opticModel
  /\ state'.ringMount = state.ringMount
  /\ state'.ringMountVariantId = state.ringMountVariantId
  /\ state'.magRing = state.magRing
  /\ cards'["ring-mount"] = cards["ring-mount"]
  /\ cards'["mag-ring"] = cards["mag-ring"]
  /\ chips'.optic = chips.optic

PhoneKept ==
  /\ state'.phoneBrand = state.phoneBrand
  /\ state'.phoneModel = state.phoneModel
  /\ state'.phoneCase = state.phoneCase
  /\ cards'["phone-case"] = cards["phone-case"]
  /\ chips'.phone = chips.phone

C29_Step ==
  /\ \/ PhoneKept /\ selectedAccessories' = selectedAccessories
     \/ \A f \in {"optic-brand", "optic-model"} : \A value \in ChipValues(f) :
          ~handleChipClick(f, value)
  /\ \/ OpticKept /\ selectedAccessories' = selectedAccessories
     \/ \A f \in {"phone-brand", "phone-model"} : \A value \in ChipValues(f) :
          ~handleChipClick(f, value)
  /\ \/ selectedProducts' = selectedProducts
     \/ \A f \in {"optic-model", "phone-model"} : \A value \in ChipValues(f) :
          ~handleChipClick(f, value)
  /\ \/ selectedProducts' = selectedProducts /\ state' = state /\ cards' = cards
     \/ \A b \in BlockIds(data) :
          ~handleAccessoryCardClick(b) /\ ~handleRemoveAccessoryFromSummary(b)

C29_Independent == [][C29_Step]_vars

\* both configurations are resolved, and the phone case is a line
C29_Witness ==
  /\ state.opticBrand = "b1"
  /\ state.opticModel = "m1"
  /\ state.ringMount.id = 6
  /\ state.phoneBrand = "p1"
  /\ state.phoneModel = "pm1"
  /\ state.phoneCase.id = 4
  /\ DOMAIN selectedProducts = {4}


-----------------------------------------------------------------------------
(* C30: a line does not depend on the configuration it was added under: no
   brand or model choice changes the ledger; every line, whatever the
   configurations are now, can be removed, decremented and (below the
   modelled quantity bound) incremented; and a click on an available card
   whose variant already has a line adds one to that line's quantity and
   keeps the rest of the line as it was stored, though the state now holds
   the variant under another product type. *)
C30_LineUsable ==
  \A v \in DOMAIN selectedProducts :
    /\ ENABLED (handleRemoveFromSummary(v) /\ v \notin DOMAIN selectedProducts')
    /\ ENABLED (/\ changeLineQuantity(v, -1)
                /\ IF selectedProducts[v].quantity > 1
                     THEN selectedProducts' = [selectedProducts EXCEPT
                            ![v].quantity = selectedProducts[v].quantity - 1]
                     ELSE v \notin DOMAIN selectedProducts')
    /\ selectedProducts[v].quantity < MaxQty
         => ENABLED (/\ changeLineQuantity(v, 1)
                     /\ selectedProducts' = [selectedProducts EXCEPT
                          ![v].quantity = selectedProducts[v].quantity + 1])

C30_ChipStep ==
  \/ selectedProducts' = selectedProducts
  \/ \A f \in Fields : \A value \in ChipValues(f) : ~handleChipClick(f, value)

C30_AddStep ==
  \A t \in TypeSet :
    (cards[t].available /\ cards[t].variantId \in DOMAIN selectedProducts)
    => \/ selectedProducts' = [selectedProducts EXCEPT
            ![cards[t].variantId].quantity = selectedProducts[cards[t].variantId].quantity + 1]
       \/ ~handleProductCardClick(t)

C30_LineIndependent == []C30_LineUsable /\ [][C30_ChipStep /\ C30_AddStep]_vars

\* the line of variant 2 was added as the ring mount of m1; m3, whose mag ring
\* is variant 2, is chosen now, and the line has quantity 2 and its first type
C30_Witness ==
  /\ data = CatalogShared
  /\ state.opticModel = "m3"
  /\ state.magRing.id = 2
  /\ cards["mag-ring"].variantId = 2
  /\ DOMAIN selectedProducts = {2}
  /\ selectedProducts[2].productType = "ring-mount"
  /\ selectedProducts[2].quantity = 2


-----------------------------------------------------------------------------
(* C31: the items of a request are those of the selection when the button
   was clicked.  While a request awaits its answer the ledger can still be
   changed (a line removed or changed in quantity, an accessory toggled) and
   such a step changes the ledger at once and leaves every pending request,
   with its items, and every pending timer as it was; and no answer and no
   timer changes the ledger. *)
Ledger == <<selectedProducts, selectedAccessories>>

InFlight == \E i \in 1..Len(subs) : subs[i].awaiting = "/cart/add.js"

C31_LedgerOpen ==
  InFlight =>
    /\ \A v \in DOMAIN selectedProducts :
         /\ ENABLED (handleRemoveFromSummary(v) /\ v \notin DOMAIN selectedProducts')
         /\ ENABLED (changeLineQuantity(v, -1) /\ selectedProducts' # selectedProducts)
    /\ \A b \in BlockIds(data) :
         accCards[b].available
           => ENABLED (handleAccessoryCardClick(b)
                       /\ selectedAccessories'[b] # selectedAccessories[b])

C31_Step ==
  \/ Ledger' = Ledger
  \/ subs' = subs /\ timers' = timers

C31_Snapshot == []C31_LedgerOpen /\ [][C31_Step]_vars

\* the adapter and accessory a1 were submitted; the request still awaits its
\* answer and the adapter's line has been removed from the ledger since
C31_Witness ==
  /\ data = CatalogAdapter
  /\ Len(subs) = 1
  /\ subs[1].awaiting = "/cart/add.js"
  /\ subs[1].items = <<[id |-> 5, quantity |-> 1], [id |-> 11, quantity |-> 1]>>
  /\ selectedProducts = <<>>
  /\ selectedAccessories["a1"]


-----------------------------------------------------------------------------
(* C32: whenever the selection is empty, no submission is under way and no
   notice is showing (no timer is pending), the button shows its base label,
   without an item count. *)
C32_BaseLabel ==
  (SelectionEmpty /\ Idle /\ timers = <<>>) => button.text = BaseText


-----------------------------------------------------------------------------
(* C33: whenever no submission is under way and no notice is showing (no
   timer is pending), the item count the button shows is the item count of
   the selection. *)
C33_CountShown ==
  (Idle /\ timers = <<>>) => button.text[2] = RefItemCount


-----------------------------------------------------------------------------
(* C34: in each configuration a chosen model implies a chosen brand; and
   while no model is chosen the configuration resolves no variant and no
   click on one of its cards changes the ledger. *)
C34_ModelNeedsBrand ==
  /\ state.opticModel # NullHandle => state.opticBrand # NullHandle
  /\ state.phoneModel # NullHandle => state.phoneBrand # NullHandle

C34_NoModelNoVariant ==
  /\ state.opticModel = NullHandle
       => /\ state.ringMount = NoVariant
          /\ state.ringMountVariantId = 0
          /\ state.magRing = NoVariant
          /\ \A t \in {"ring-mount", "mag-ring"} :
               ~ENABLED (handleProductCardClick(t) /\ selectedProducts' # selectedProducts)
  /\ state.phoneModel = NullHandle
       => /\ state.phoneCase = NoVariant
          /\ ~ENABLED (handleProductCardClick("phone-case")
                       /\ selectedProducts' # selectedProducts)

C34_Configuration == C34_ModelNeedsBrand /\ C34_NoModelNoVariant


-----------------------------------------------------------------------------
(* C35: a click on a model chip offered for the chosen brand resolves the
   variants of the catalog model that has the chip's handle and the chosen
   brand. *)
\* the variant the catalog holds in this role for the model of this handle
\* and this brand
RefVariantOfBrand(models, handle, brand, role) ==
  LET found == {i \in 1..Len(models) :
                  models[i].handle = handle /\ models[i].brandHandle = brand}
  IN IF found = {} THEN NoVariant ELSE models[Min(found)][role]

C35_ModelStep ==
  /\ \A value \in SeqSet(chips.optic) :
       handleChipClick("optic-model", value)
       => /\ state'.ringMount =
               RefVariantOfBrand(data.opticModels, value, state.opticBrand, "ringMount")
          /\ state'.magRing =
               RefVariantOfBrand(data.opticModels, value, state.opticBrand, "magRing")
  /\ \A value \in SeqSet(chips.phone) :
       handleChipClick("phone-model", value)
       => state'.phoneCase =
            RefVariantOfBrand(data.phoneModels, value, state.phoneBrand, "phoneCase")

C35_ModelOfBrand == [][C35_ModelStep]_vars


-----------------------------------------------------------------------------
(* C36: every displayed variant card is marked selected exactly when the
   ledger has a line of the card's variant id, and every accessory card is
   marked selected exactly when the accessory is selected. *)
C36_CardsMatchLedger ==
  /\ \A t \in TypeSet :
       Clickable(t) => (cards[t].selected <=> cards[t].variantId \in DOMAIN selectedProducts)
  /\ \A b \in DOMAIN accCards : accCards[b].selected <=> selectedAccessories[b]


-----------------------------------------------------------------------------
(* C37: in every reachable state, for every displayed card of an available
   variant, the ledger that a click on the card leaves has a line of the
   variant, and taking one off that line gives the ledger, the item count
   and the total of the state again, whether the variant had a line or not. *)
C37_AddThenDecrement ==
  \A t \in TypeSet :
    (Clickable(t) /\ cards[t].available)
    => LET v == cards[t].variantId
           added == AddOrIncrement(selectedProducts, v, t, state[StateKey(t)])
       IN /\ v \in DOMAIN added
          /\ added # selectedProducts
          /\ LET restored == ChangeQuantity(added, v, -1)
                 shown == Summarize(data, restored, selectedAccessories)
             IN /\ restored = selectedProducts
                /\ shown.itemCount = summary.itemCount
                /\ shown.total = summary.total
                /\ shown.items = summary.items

\* the ring-mount card shows variant 2, which has a line of quantity 1, and
\* the mag-ring card shows variant 1, which has none
C37_Witness ==
  /\ data = CatalogOptic
  /\ Clickable("ring-mount") /\ cards["ring-mount"].variantId = 2
  /\ Clickable("mag-ring") /\ cards["mag-ring"].variantId = 1
  /\ DOMAIN selectedProducts = {2}
  /\ selectedProducts[2].quantity = 1


-----------------------------------------------------------------------------
(* C38: the sections are loaded in the order optic brands, optic models,
   phone brands, phone models, adapter, accessories; a section has its page
   data exactly when its element is there and neither it nor a section
   before it fails to parse, and is at its empty default otherwise. *)
SectionOrder ==
  <<"opticBrands", "opticModels", "phoneBrands", "phoneModels", "adapterProduct",
    "accessories">>

\* the section at place i of the order, as the claim has it loaded
Section(raw, i) ==
  IF /\ \A j \in 1..i : raw[SectionOrder[j]].kind # "unparseable"
     /\ raw[SectionOrder[i]].kind = "json"
    THEN raw[SectionOrder[i]].value
    ELSE EmptyData[SectionOrder[i]]

C38_Expected(raw) ==
  [opticBrands |-> Section(raw, 1), opticModels |-> Section(raw, 2),
   phoneBrands |-> Section(raw, 3), phoneModels |-> Section(raw, 4),
   adapterProduct |-> Section(raw, 5), accessories |-> Section(raw, 6)]

C38_LoadStep ==
  \A raw \in LoadPages :
    \/ data' = C38_Expected(raw)
    \/ ~Reload(raw, observers')

C38_LoadOrder == [][C38_LoadStep]_vars

\* the two optic sections are loaded and nothing else is: on one of the pages
\* that give this state the phone brands fail to parse and the three sections
\* after them are well-formed
C38_Witness ==
  /\ data.opticBrands = CatalogPhone.opticBrands
  /\ data.opticModels = CatalogPhone.opticModels
  /\ data.phoneBrands = <<>>
  /\ data.phoneModels = <<>>
  /\ data.adapterProduct = NoVariant
  /\ data.accessories = <<>>

====
